---- MODULE Spec2Model ----
(***************************************************************************)
(* GitHub OAuth relay for Decap CMS: the /auth and /callback routes, the   *)
(* provider-facing helpers getToken, getGitHubUser and                     *)
(* verifyUserPermission, and the success page that hands the token to the  *)
(* opener window.                                                          *)
(*                                                                         *)
(* The server keeps no state between requests.  What persists is the       *)
(* browser's cookie jar (the signed oauth_state cookie) and the read-only  *)
(* configuration.  A /callback request is an async handler: it suspends at *)
(* each provider call, so one flow is a small state machine                *)
(*   Idle -> Exchanging -> FetchingProfile -> VerifyingPermission          *)
(*        -> Terminal -> Page                                              *)
(* and every provider answer is an input chosen by the environment.        *)
(***************************************************************************)
EXTENDS Naturals, Sequences, FiniteSets

VARIABLES env, config, issued, jar, flow, clock

vars == <<env, config, issued, jar, flow, clock>>

(***************************************************************************)
(* Sizes of the model.                                                     *)
(***************************************************************************)
\* how many distinct state values randomBytes can produce in one run
NumStates == 2

StateHex == <<"1a2b", "3c4d", "5e6f", "7081">>

States == {StateHex[i] : i \in 1..NumStates}

Browsers == {"b1", "b2"}

\* the popup windows: one runs flows one after the other, two run them at the
\* same time
Flows == {"f1", "f2"}

OnePopup == {"f1"}

Tokens == {"gho_A", "gho_B"}

\* a query parameter that is not in the query string (undefined in JS)
Absent == "<undefined>"

\* JS truthiness of an optional string
Falsy(v) == v \in {Absent, ""}

(***************************************************************************)
(* Configuration (config.ts).  Every required variable is a non-empty      *)
(* string; nothing else is validated when the configuration is loaded.     *)
(***************************************************************************)
SessionSecret == "session-secret"

AttackerKey == "attacker-key"

\* GITHUB_REPO as a sequence of characters
RepoValues == {<<"o", "/", "r">>, <<"o", "r">>}

FrontendUrls == {"https://cms.example.com", "*"}

\* repo.includes("/")
RepoIncludesSlash(repo) == \E i \in 1..Len(repo) : repo[i] = "/"

\* an environment variable that is not set (process.env[key] is undefined)
Unset == "<unset>"

RequiredKeys ==
    {"GITHUB_CLIENT_ID", "GITHUB_CLIENT_SECRET", "GITHUB_CALLBACK_URL", "GITHUB_REPO", "FRONTEND_URL"}

OptionalKeys ==
    {"NODE_ENV", "PORT", "HOST", "GITHUB_SCOPE", "SESSION_SECRET",
     "RATE_LIMIT_REQUESTS", "RATE_LIMIT_WINDOW_MINUTES", "LOG_LEVEL"}

EnvKeys == RequiredKeys \cup OptionalKeys

\* the second argument of getConfigValue, where the code gives one
Defaults ==
    [NODE_ENV |-> "development", PORT |-> "3000", HOST |-> "0.0.0.0", GITHUB_SCOPE |-> "repo",
     SESSION_SECRET |-> "a_very_strong_secret_key_that_should_be_changed",
     RATE_LIMIT_REQUESTS |-> "100", RATE_LIMIT_WINDOW_MINUTES |-> "60", LOG_LEVEL |-> "info"]

\* getConfigValue accepting an empty string: value !== undefined
GetConfigValueAcceptsEmpty(e, key) ==
    IF e[key] # Unset THEN [kind |-> "return", value |-> e[key], message |-> ""]
    ELSE IF key \in OptionalKeys THEN [kind |-> "return", value |-> Defaults[key], message |-> ""]
    ELSE [kind |-> "throw", value |-> Unset, message |-> key]

\* getConfigValue(key, defaultValue): the value if truthy, else the default
\* if one is given, else an error naming the key
GetConfigValue(e, key) ==
    IF e[key] \notin {Unset, ""} THEN [kind |-> "return", value |-> e[key], message |-> ""]
    ELSE IF key \in OptionalKeys THEN [kind |-> "return", value |-> Defaults[key], message |-> ""]
    ELSE [kind |-> "throw", value |-> Unset, message |-> key]

\* the characters of a GITHUB_REPO value
CharsOf(str) ==
    IF str = "o/r" THEN <<"o", "/", "r">>
    ELSE IF str = "or" THEN <<"o", "r">>
    ELSE <<>>

\* the module has not been evaluated yet
NotLoaded == [status |-> "not-loaded"]

\* evaluating config.ts threw: the process does not start
LoadFailed(key) == [status |-> "failed", missing |-> key]

\* export const config = {...}: every getConfigValue call, in order; the
\* first that throws ends the load
LoadConfig(e) ==
    LET missing == {k \in EnvKeys : GetConfigValue(e, k).kind = "throw"}
        v(k) == GetConfigValue(e, k).value
    IN IF missing # {}
       THEN LoadFailed(CHOOSE k \in missing : TRUE)
       ELSE [status |-> "ok",
             nodeEnv |-> v("NODE_ENV"), port |-> v("PORT"), host |-> v("HOST"),
             clientId |-> v("GITHUB_CLIENT_ID"), clientSecret |-> v("GITHUB_CLIENT_SECRET"),
             callbackUrl |-> v("GITHUB_CALLBACK_URL"), scope |-> v("GITHUB_SCOPE"),
             repo |-> CharsOf(v("GITHUB_REPO")),
             frontendUrl |-> v("FRONTEND_URL"), sessionSecret |-> v("SESSION_SECRET"),
             rateLimitRequests |-> v("RATE_LIMIT_REQUESTS"),
             rateLimitWindowMinutes |-> v("RATE_LIMIT_WINDOW_MINUTES"),
             logLevel |-> v("LOG_LEVEL")]

\* the environments the running server is studied under: every required
\* variable set, the target repository with and without its separator, the
\* client-facing origin a URL or "*"
StartEnvs ==
    {[k \in EnvKeys |->
         IF k = "GITHUB_REPO" THEN repo
         ELSE IF k = "FRONTEND_URL" THEN url
         ELSE IF k = "SESSION_SECRET" THEN SessionSecret
         ELSE IF k \in RequiredKeys THEN "set"
         ELSE Unset] : repo \in {"o/r", "or"}, url \in FrontendUrls}

Configs == {LoadConfig(e) : e \in StartEnvs}

(***************************************************************************)
(* Signed cookies (@fastify/cookie).  A raw cookie is value.signature; the *)
(* signature is an HMAC of the value under a key, modelled as the pair.    *)
(***************************************************************************)
Hmac(value, key) == [of |-> value, key |-> key]

NoSig == [of |-> "", key |-> "none"]

\* request.cookies.oauth_state || ""
EmptyCookie == [value |-> "", sig |-> NoSig]

\* SetStateCookie with signed: true left out
SetStateCookieUnsigned(state, secret) == [value |-> state, sig |-> NoSig]

\* reply.setCookie("oauth_state", state, {signed: true, ...})
SetStateCookie(state, secret) == [value |-> state, sig |-> Hmac(state, secret)]

\* request.unsignCookie(raw): {valid, value}
UnsignCookie(raw, secret) ==
    IF raw.sig = Hmac(raw.value, secret)
    THEN [valid |-> TRUE, value |-> raw.value]
    ELSE [valid |-> FALSE, value |-> Absent]

\* the signatures a client can put on a cookie: those the server handed out,
\* and those it computes itself under a key that is not the server's
KnownSigs(iss) == {Hmac(s, SessionSecret) : s \in iss} \cup {Hmac(StateHex[1], AttackerKey)}

\* every oauth_state cookie a client can send
SendableCookies(iss) == {EmptyCookie} \cup [value : States, sig : KnownSigs(iss)]

(***************************************************************************)
(* Replies.                                                                *)
(***************************************************************************)
NoSetCookie == [name |-> "", path |-> "", clear |-> FALSE, cookie |-> EmptyCookie, maxAge |-> 0]

\* redirects counts the calls of reply.redirect
NoReply == [status |-> 0, path |-> "", token |-> Absent, error |-> Absent,
            origin |-> Absent, state |-> Absent, redirect_uri |-> Absent, scope |-> Absent,
            setCookie |-> NoSetCookie, redirects |-> 0]

\* ClearCookie with the call left out
ClearCookieMissing(reply) == reply

\* ClearCookie under another path than the cookie's
ClearCookieWrongPath(reply) ==
    [reply EXCEPT !.setCookie = [name |-> "oauth_state", path |-> "/callback", clear |-> TRUE,
                                 cookie |-> EmptyCookie, maxAge |-> 0]]

\* reply.clearCookie("oauth_state", { path: "/" })
ClearCookie(reply) ==
    [reply EXCEPT !.setCookie = [name |-> "oauth_state", path |-> "/", clear |-> TRUE,
                                 cookie |-> EmptyCookie, maxAge |-> 0]]

\* reply.redirect(`/error?${errorParams}`) with error and origin
RedirectError(reply, msg, cfg) ==
    [reply EXCEPT !.status = 302, !.path = "/error", !.error = msg, !.origin = cfg.frontendUrl,
                  !.redirects = @ + 1]

\* RedirectSuccess taking the token from a slot that every request writes:
\* the token of another request, when one has obtained a token
RedirectSuccessSharedSlot(reply, token, cfg) ==
    LET others == {flow[g].accessToken : g \in Flows} \ {Absent, token}
    IN [reply EXCEPT !.status = 302, !.path = "/success",
                     !.token = IF others = {} THEN token ELSE CHOOSE t \in others : TRUE,
                     !.origin = cfg.frontendUrl, !.redirects = @ + 1]

\* RedirectSuccess with the wildcard in place of the configured origin
RedirectSuccessWildcard(reply, token, cfg) ==
    [reply EXCEPT !.status = 302, !.path = "/success", !.token = token, !.origin = "*",
                  !.redirects = @ + 1]

\* reply.redirect(`/success?${successParams}`) with token and origin
RedirectSuccess(reply, token, cfg) ==
    [reply EXCEPT !.status = 302, !.path = "/success", !.token = token, !.origin = cfg.frontendUrl,
                  !.redirects = @ + 1]

\* what the framework answers when a handler's promise rejects
FrameworkError(reply) == [reply EXCEPT !.status = 500, !.path = ""]

\* the browser applies a Set-Cookie directive to the oauth_state cookie at path "/"
ApplySetCookie(held, sc) ==
    IF sc.name = "oauth_state" /\ sc.path = "/"
    THEN (IF sc.clear THEN EmptyCookie ELSE sc.cookie)
    ELSE held

(***************************************************************************)
(* Log entries: where they are written, the message, and the values that   *)
(* are interpolated or attached.                                           *)
(***************************************************************************)
LogEntry(level, msg, data) == [level |-> level, msg |-> msg, data |-> data]

(***************************************************************************)
(* Token exchange (utils/oauth.ts getToken).                               *)
(***************************************************************************)
\* an access_token that simple-oauth2 hands back but is not a string
NonString == "<object>"

TypeOf(v) == IF v = Absent THEN "undefined" ELSE IF v = NonString THEN "object" ELSE "string"

\* what oauthClient.getToken can do: resolve with a token object, reject on a
\* non-success status, reject on a network failure
TokenResponses ==
    [kind : {"ok"}, access_token : Tokens \cup {NonString, Absent}]
        \cup [kind : {"status", "network"}, access_token : {Absent}]

Return(v) == [kind |-> "return", value |-> v, message |-> ""]

Throw(msg) == [kind |-> "throw", value |-> Absent, message |-> msg]

\* GetTokenTry without the typeof test: whatever access_token holds is returned
GetTokenTryNoTypeCheck(resp) ==
    IF resp.kind = "ok"
    THEN Return(resp.access_token)
    ELSE Throw(IF resp.kind = "status" THEN "Response Error" ELSE "fetch failed")

\* tokenParams: what getToken sends to the token endpoint
TokenParams(code, cfg) == [code |-> code, redirect_uri |-> cfg.callbackUrl, scope |-> cfg.scope]

NoTokenParams == [code |-> Absent, redirect_uri |-> Absent, scope |-> Absent]

\* the try block of getToken
GetTokenTry(resp) ==
    IF resp.kind = "ok"
    THEN (IF TypeOf(resp.access_token) = "string"
          THEN Return(resp.access_token)
          ELSE Throw("Access token received from GitHub is not in the expected string format."))
    ELSE Throw(IF resp.kind = "status" THEN "Response Error" ELSE "fetch failed")

\* the catch block of getToken: log, then rethrow
GetTokenCatch(err) == Throw("Failed to obtain access token from GitHub")

GetToken(resp) ==
    LET r == GetTokenTry(resp) IN IF r.kind = "throw" THEN GetTokenCatch(r) ELSE r

GetTokenLog(resp) ==
    IF GetTokenTry(resp).kind = "throw"
    THEN {LogEntry("console.error", "Access Token Error Details:", {GetTokenTry(resp).message})}
    ELSE {}

(***************************************************************************)
(* Profile fetch (utils/github.ts getGitHubUser).                          *)
(***************************************************************************)
\* the JSON body of GET /user: an object with a login, an object without
\* one, or null
UserBodies == {"profile", "empty-object", "null"}

UserResponses ==
    [kind : {"http"}, status : {200}, body : UserBodies \cup {"malformed"}]
        \cup [kind : {"http"}, status : {401, 500}, body : {"malformed"}]
        \cup [kind : {"network"}, status : {0}, body : {"malformed"}]

ResponseOk(resp) == resp.status >= 200 /\ resp.status <= 299

NullUser == [null |-> TRUE, login |-> Absent]

\* GetGitHubUser without the response.ok test: the body of an error response
\* is returned as the profile
GetGitHubUserNoStatusCheck(resp) ==
    IF resp.kind = "network" THEN NullUser
    ELSE IF ~ResponseOk(resp) THEN [null |-> FALSE, login |-> Absent]
    ELSE IF resp.body \in {"malformed", "null"} THEN NullUser
    ELSE [null |-> FALSE, login |-> IF resp.body = "profile" THEN "alice" ELSE Absent]

\* getGitHubUser: the profile, or null on a non-success status, a network
\* failure, a body that is not JSON, or a null body (userProfile.id throws)
GetGitHubUser(resp) ==
    IF resp.kind = "network" THEN NullUser
    ELSE IF ~ResponseOk(resp) THEN NullUser
    ELSE IF resp.body \in {"malformed", "null"} THEN NullUser
    ELSE [null |-> FALSE, login |-> IF resp.body = "profile" THEN "alice" ELSE Absent]

GetGitHubUserLog(resp) ==
    IF resp.kind = "network" \/ (ResponseOk(resp) /\ resp.body \in {"malformed", "null"})
    THEN {LogEntry("error", "Error fetching GitHub user profile", {"<error message>"})}
    ELSE IF ~ResponseOk(resp)
    THEN {LogEntry("error", "GitHub API error fetching user profile", {"<status>", "<errorBody>"})}
    ELSE {LogEntry("info", "Successfully fetched GitHub user profile", {GetGitHubUser(resp).login})}

(***************************************************************************)
(* Permission check (utils/github.ts verifyUserPermission).                *)
(***************************************************************************)
Permissions == {"admin", "write", "maintain", "read", "none", "triage"}

PermResponses ==
    [kind : {"http"}, status : {200}, body : {"object"}, permission : Permissions \cup {Absent}]
        \cup [kind : {"http"}, status : {200}, body : {"null", "malformed"}, permission : {Absent}]
        \cup [kind : {"http"}, status : {404, 403, 500}, body : {"object"}, permission : {Absent}]
        \cup [kind : {"network"}, status : {0}, body : {"malformed"}, permission : {Absent}]

\* HasWritePermission accepting any collaborator role
HasWritePermissionLax(permission) == permission \in {"admin", "write", "maintain", "read", "triage"}

\* ["admin", "write", "maintain"].includes(data.permission)
HasWritePermission(permission) == permission \in {"admin", "write", "maintain"}

\* the guard before the try block: GITHUB_REPO must contain "/"
VerifyRepoFormat(cfg) ==
    IF RepoIncludesSlash(cfg.repo)
    THEN Return(TRUE)
    ELSE Throw("Invalid GITHUB_REPO format. Expected owner/repo.")

\* the try block of verifyUserPermission
VerifyUserPermissionTry(resp) ==
    IF resp.kind = "network" THEN Throw("fetch failed")
    ELSE IF ~ResponseOk(resp)
    THEN (IF resp.status = 404 THEN Return(FALSE)
          ELSE Throw("Failed to verify user permission. Status"))
    ELSE IF resp.body = "malformed" THEN Throw("Unexpected token in JSON")
    ELSE IF resp.body = "null" THEN Throw("Cannot read properties of null")
    ELSE Return(HasWritePermission(resp.permission))

\* VerifyUserPermissionCatch failing open: a fault grants access
VerifyUserPermissionFailOpen(err) == Return(TRUE)

\* the catch block of verifyUserPermission: log, return false
VerifyUserPermissionCatch(err) == Return(FALSE)

\* verifyUserPermission once the request has been answered
VerifyUserPermission(resp) ==
    LET r == VerifyUserPermissionTry(resp)
    IN IF r.kind = "throw" THEN VerifyUserPermissionCatch(r) ELSE r

VerifyUserPermissionLog(resp, username) ==
    (IF resp.kind = "http" /\ ~ResponseOk(resp)
     THEN {LogEntry("error", "GitHub API error checking permission for user",
                    {"<status>", "<url>", "<errorBody>", username})}
     ELSE {})
    \cup
    (IF VerifyUserPermissionTry(resp).kind = "throw"
     THEN {LogEntry("error", "Error verifying GitHub user permission",
                    {VerifyUserPermissionTry(resp).message, username})}
     ELSE IF resp.kind = "http" /\ ResponseOk(resp)
     THEN {LogEntry("info", "User permission check result for", {username, resp.permission})}
     ELSE {})

(***************************************************************************)
(* The success page (views/success.html): the script that runs when the    *)
(* browser has followed the redirect to /success.                          *)
(***************************************************************************)
NoPage == [loaded |-> FALSE, opener |-> FALSE, posted |-> {}, console |-> {}, closed |-> FALSE,
           status |-> ""]

\* postMessage with "*" as the target of every message
PostedMessageToAny(data, token, target) == [data |-> data, token |-> token, target |-> "*"]

\* window.opener.postMessage(message, targetOrigin)
PostedMessage(data, token, target) == [data |-> data, token |-> token, target |-> target]

\* params.get("origin") || "*"
PageOrigin(originParam) == IF Falsy(originParam) THEN "*" ELSE originParam

\* CanPost without the test of the origin
CanPostAnyOrigin(tokenParam, origin) == ~Falsy(tokenParam)

\* token && origin !== "*"
CanPost(tokenParam, origin) == ~Falsy(tokenParam) /\ origin # "*"

SuccessPageScript(tokenParam, originParam, opener) ==
    LET first == IF opener THEN {PostedMessage("authorizing:github", Absent, "*")} ELSE {}
        origin == PageOrigin(originParam)
    IN IF CanPost(tokenParam, origin)
       THEN (IF opener
             THEN [loaded |-> TRUE, opener |-> opener,
                   posted |-> first \cup {PostedMessage("authorization:github:success:", tokenParam, origin)},
                   console |-> {},
                   closed |-> TRUE,
                   status |-> "Authentication successful. Closing window..."]
             ELSE [loaded |-> TRUE, opener |-> opener, posted |-> first,
                   console |-> {LogEntry("console.error",
                                         "[OAuth Success Page] window.opener is not available.", {})},
                   closed |-> FALSE,
                   status |-> "Error: Cannot find the main window to send authentication details."])
       ELSE [loaded |-> TRUE, opener |-> opener, posted |-> first,
             console |-> {LogEntry("console.error",
                                   "[OAuth Success Page] Authentication failed. Token:",
                                   {tokenParam, origin})},
             closed |-> FALSE,
             status |-> IF Falsy(tokenParam)
                        THEN "Error: Authentication token not found."
                        ELSE "Error: Target origin for authentication response not specified correctly."]

(***************************************************************************)
(* One flow: the request a popup window has in progress, and what came of  *)
(* it.                                                                     *)
(***************************************************************************)
NoQuery == [code |-> Absent, state |-> Absent, error |-> Absent, error_description |-> Absent]

NoTokenResp == [kind |-> "none", access_token |-> Absent]

NoUserResp == [kind |-> "none", status |-> 0, body |-> "malformed"]

NoPermResp == [kind |-> "none", status |-> 0, body |-> "malformed", permission |-> Absent]

\* the query of a /error request: a function from the parameters that are
\* present to their values
NoErrorQuery == <<>>

\* the query of a /success request
NoSuccessQuery == [token |-> Absent, origin |-> Absent]

IdleFlow ==
    [pc |-> "Idle", route |-> "", browser |-> "b1", query |-> NoQuery,
     cookie |-> EmptyCookie, fromJar |-> FALSE, replay |-> FALSE, firstPassed |-> FALSE,
     cookieState |-> [valid |-> FALSE, value |-> Absent], validated |-> FALSE,
     tokenResp |-> NoTokenResp, accessToken |-> Absent,
     userResp |-> NoUserResp, githubUser |-> NullUser,
     permResp |-> NoPermResp, hasPermission |-> "unset",
     calls |-> <<>>, reply |-> NoReply, log |-> {}, page |-> NoPage,
     successQuery |-> NoSuccessQuery, errorQuery |-> NoErrorQuery, arrivedAt |-> 0,
     tokenParams |-> NoTokenParams, awaited |-> {}, redirectedBy |-> NoReply]

\* the popup has no request in progress and can issue the next one
Resting(f) == flow[f].pc = "Idle"

QueryStates == States \cup {Absent, ""}

QueryCodes == {Absent, "", "code-1"}

QueryErrors == {Absent, "access_denied"}

QueryDescriptions == {Absent, "User denied"}

\* error_description is read only when error is present
Queries ==
    {q \in [code : QueryCodes, state : QueryStates, error : QueryErrors,
            error_description : QueryDescriptions] :
        q.error = Absent => q.error_description = Absent}

\* the time in seconds since the process started, and when each state value
\* was issued
StartClock == [now |-> 0, issuedAt |-> [s \in States |-> 0]]

Init ==
    /\ env \in StartEnvs
    /\ config = LoadConfig(env)
    /\ issued = {}
    /\ jar = [b \in Browsers |-> EmptyCookie]
    /\ flow = [f \in Flows |-> IdleFlow]
    /\ clock = StartClock

\* the response reaches the browser: the flow is over and the browser applies
\* the Set-Cookie directive
Respond(f, rec) ==
    /\ flow' = [flow EXCEPT ![f] = [rec EXCEPT !.pc = "Terminal"]]
    /\ jar' = [jar EXCEPT ![rec.browser] = ApplySetCookie(@, rec.reply.setCookie)]
    /\ UNCHANGED <<env, config, issued, clock>>

(***************************************************************************)
(* GET /auth (routes/auth.ts).                                             *)
(***************************************************************************)
AuthThrowPoints == {"none", "randomBytes", "authorizeURL"}

AuthCatchMessage == "Failed to initiate authentication."

\* maxAge: 300, in seconds
MaxAge == 300

AuthSetCookie(state, cfg) ==
    [name |-> "oauth_state", path |-> "/", clear |-> FALSE,
     cookie |-> SetStateCookie(state, cfg.sessionSecret), maxAge |-> MaxAge,
     httpOnly |-> TRUE, secure |-> (cfg.nodeEnv = "production"), signed |-> TRUE,
     sameSite |-> "lax"]

\* getAuthorizationUrl with redirect_uri left out
GetAuthorizationUrlNoRedirectUri(state, cfg) ==
    [path |-> "https://github.com/login/oauth/authorize", redirect_uri |-> Absent,
     scope |-> cfg.scope, state |-> state]

\* getAuthorizationUrl(state): the authorize URL with redirect_uri, scope and state
GetAuthorizationUrl(state, cfg) ==
    [path |-> "https://github.com/login/oauth/authorize", redirect_uri |-> cfg.callbackUrl,
     scope |-> cfg.scope, state |-> state]

Auth(f, b, s, threw) ==
    /\ Resting(f)
    /\ s \notin issued
    /\ LET cookieSet == [NoReply EXCEPT !.setCookie = AuthSetCookie(s, config)]
           reply == IF threw = "randomBytes" THEN RedirectError(NoReply, AuthCatchMessage, config)
                    ELSE IF threw = "authorizeURL" THEN RedirectError(cookieSet, AuthCatchMessage, config)
                    ELSE LET url == GetAuthorizationUrl(s, config)
                         IN [cookieSet EXCEPT !.status = 302, !.path = url.path,
                                              !.state = url.state,
                                              !.redirect_uri = url.redirect_uri,
                                              !.scope = url.scope, !.redirects = @ + 1]
           rec == [IdleFlow EXCEPT !.route = "/auth", !.browser = b, !.reply = reply,
                       !.log = IF threw = "none"
                               THEN {LogEntry("info", "Redirecting to GitHub for authorization. State:", {s})}
                               ELSE {LogEntry("error", "Error in /auth route", {"<error message>", "<stack>"})}]
       IN /\ flow' = [flow EXCEPT ![f] =
                         [rec EXCEPT !.pc = IF threw = "none" THEN "AwaitingCallback" ELSE "Terminal"]]
          /\ jar' = [jar EXCEPT ![b] = ApplySetCookie(@, reply.setCookie)]
          /\ issued' = IF threw = "randomBytes" THEN issued ELSE issued \cup {s}
          /\ clock' = IF threw = "randomBytes" THEN clock
                      ELSE [clock EXCEPT !.issuedAt[s] = clock.now]
          /\ UNCHANGED <<env, config>>

(***************************************************************************)
(* GET /callback (routes/callback.ts).                                     *)
(***************************************************************************)
\* StateRejected without the comparison of the cookie value and the query
StateRejectedNoCompare(queryState, cookieState) ==
    \/ Falsy(queryState)
    \/ ~cookieState.valid

\* StateRejected against the states the server has issued, not the cookie
StateRejectedIssuedAny(queryState, cookieState) ==
    \/ Falsy(queryState)
    \/ queryState \notin issued

\* !queryState || !cookieState || !cookieState.valid || cookieState.value !== queryState
\* (unsignCookie always returns an object, so !cookieState is never true)
StateRejected(queryState, cookieState) ==
    \/ Falsy(queryState)
    \/ ~cookieState.valid
    \/ cookieState.value # queryState

\* server.log.warn(...) of the rejected request: one line, whatever cookieState holds
CsrfLog(cookieState) ==
    {LogEntry("warn", "Invalid OAuth state parameter or cookie mismatch. Potential CSRF attack.", {})}

\* cookieState && !cookieState.valid ? "Invalid state cookie signature." : "State parameter ..."
CsrfMessage(cookieState) ==
    IF ~cookieState.valid
    THEN "CSRF validation failed: Invalid state cookie signature."
    ELSE "CSRF validation failed: State parameter mismatch or missing."

\* ProviderErrorMessage with error_description ignored
ProviderErrorMessageGenericOnly(description) == "An error occurred during GitHub authentication."

\* error_description || "An error occurred during GitHub authentication."
ProviderErrorMessage(description) ==
    IF Falsy(description) THEN "An error occurred during GitHub authentication." ELSE description

CodeMissingMessage == "Authorization code missing from GitHub callback."

ProfileMessage == "Failed to fetch user profile from GitHub."

AccessDeniedMessage ==
    "Access Denied: You do not have sufficient permissions for the configured repository."

CallbackErrorMessage == "An internal error occurred during callback processing."

\* CallbackCatch rethrowing: the error leaves the handler
CallbackCatchRethrow(reply, err, cfg) == FrameworkError(reply)

\* CallbackCatch with err.message as the reason of the redirect
CallbackCatchLeaky(reply, err, cfg) == RedirectError(reply, err.message, cfg)

\* the catch block of the handler: a redirect with the fixed message
CallbackCatch(reply, err, cfg) == RedirectError(reply, CallbackErrorMessage, cfg)

CallbackCatchLog(err) == {LogEntry("error", "Error in /callback route processing", {err.message, "<stack>"})}

\* PermissionBranch ignoring the result of the check
PermissionBranchAlways(reply, hasPermission, token, cfg) == RedirectSuccess(reply, token, cfg)

\* PermissionBranch reading the token from a slot every request writes: the
\* token another request in progress has obtained, when there is one
PermissionBranchSharedToken(reply, hasPermission, token, cfg) ==
    LET others == {flow[g].accessToken : g \in Flows} \ {Absent, token}
        shared == IF others = {} THEN token ELSE CHOOSE t \in others : TRUE
    IN IF hasPermission
       THEN RedirectSuccess(reply, shared, cfg)
       ELSE RedirectError(reply, AccessDeniedMessage, cfg)

\* if (hasPermission) redirect to /success, else to /error
PermissionBranch(reply, hasPermission, token, cfg) ==
    IF hasPermission
    THEN RedirectSuccess(reply, token, cfg)
    ELSE RedirectError(reply, AccessDeniedMessage, cfg)

\* the code test as code === undefined: an empty code goes on
CodeMissingUndefinedOnly(code) == code = Absent

\* !code
CodeMissing(code) == Falsy(code)

\* the handler up to its first await: unsign, clear, validate, the provider's
\* error, the code
CallbackEntry(b, q, c, cfg, held) ==
    LET cookieState == UnsignCookie(c, cfg.sessionSecret)
        reply == ClearCookie(NoReply)
        rec == [IdleFlow EXCEPT !.route = "/callback", !.browser = b, !.query = q, !.cookie = c,
                                !.fromJar = (c = held),
                                !.cookieState = cookieState, !.reply = reply]
    IN IF StateRejected(q.state, cookieState)
       THEN [rec EXCEPT !.pc = "Terminal",
                        !.reply = RedirectError(reply, CsrfMessage(cookieState), cfg),
                        !.log = CsrfLog(cookieState)]
       ELSE LET ok == [rec EXCEPT !.validated = TRUE,
                                  !.log = {LogEntry("info", "OAuth state validated successfully.", {})}]
            IN IF ~Falsy(q.error)
               THEN [ok EXCEPT !.pc = "Terminal",
                               !.reply = RedirectError(reply, ProviderErrorMessage(q.error_description), cfg),
                               !.log = @ \cup {LogEntry("error", "OAuth Error from GitHub:",
                                                        {q.error, q.error_description})}]
               ELSE IF CodeMissing(q.code)
               THEN [ok EXCEPT !.pc = "Terminal",
                               !.reply = RedirectError(reply, CodeMissingMessage, cfg),
                               !.log = @ \cup {LogEntry("error",
                                                        "No authorization code received from GitHub.", {})}]
               ELSE [ok EXCEPT !.pc = "Exchanging", !.calls = <<"token">>,
                               !.tokenParams = TokenParams(q.code, cfg),
                               !.log = @ \cup {LogEntry("info",
                                                        "Exchanging authorization code for access token...", {})}]

Callback(f, b, q, c) ==
    /\ Resting(f)
    /\ LET rec == [CallbackEntry(b, q, c, config, jar[b]) EXCEPT !.arrivedAt = clock.now]
       IN IF rec.pc = "Terminal"
          THEN Respond(f, rec)
          ELSE /\ flow' = [flow EXCEPT ![f] = rec]
               /\ UNCHANGED <<env, config, issued, jar, clock>>

\* the same /callback URL is requested again after its response has arrived:
\* by the browser, which sends what its cookie jar now holds, or by a client
\* that sends the cookie of the first request again
CallbackAgain(f, resend) ==
    /\ flow[f].pc = "Terminal"
    /\ flow[f].route = "/callback"
    /\ ~flow[f].replay
    /\ LET old == flow[f]
           c == IF resend THEN old.cookie ELSE jar[old.browser]
           rec == [CallbackEntry(old.browser, old.query, c, config, jar[old.browser])
                       EXCEPT !.replay = TRUE, !.firstPassed = old.validated,
                              !.arrivedAt = clock.now]
       IN IF rec.pc = "Terminal"
          THEN Respond(f, rec)
          ELSE /\ flow' = [flow EXCEPT ![f] = rec]
               /\ UNCHANGED <<env, config, issued, jar, clock>>

\* AfterToken starting the profile fetch and the permission check together
AfterTokenParallel(rec, resp, cfg) ==
    LET r == GetToken(resp)
        got == [rec EXCEPT !.tokenResp = resp, !.log = @ \cup GetTokenLog(resp)]
    IN IF r.kind = "throw"
       THEN [got EXCEPT !.pc = "Terminal", !.reply = CallbackCatch(rec.reply, r, cfg),
                        !.log = @ \cup CallbackCatchLog(r)]
       ELSE [got EXCEPT !.pc = "FetchingProfile", !.accessToken = r.value,
                        !.calls = @ \o <<"user", "permission">>]

\* AfterToken calling the token endpoint a second time when the first call fails
AfterTokenRetry(rec, resp, cfg) ==
    LET r == GetToken(resp)
        got == [rec EXCEPT !.tokenResp = resp, !.log = @ \cup GetTokenLog(resp)]
    IN IF r.kind = "throw" /\ rec.calls = <<"token">>
       THEN [rec EXCEPT !.calls = Append(@, "token")]
       ELSE IF r.kind = "throw"
       THEN [got EXCEPT !.pc = "Terminal", !.reply = CallbackCatch(rec.reply, r, cfg),
                        !.log = @ \cup CallbackCatchLog(r)]
       ELSE [got EXCEPT !.pc = "FetchingProfile", !.accessToken = r.value,
                        !.calls = Append(@, "user")]

\* await getToken(code) completes
AfterToken(rec, resp, cfg) ==
    LET r == GetToken(resp)
        got == [rec EXCEPT !.tokenResp = resp, !.log = @ \cup GetTokenLog(resp)]
    IN IF r.kind = "throw"
       THEN [got EXCEPT !.pc = "Terminal", !.reply = CallbackCatch(rec.reply, r, cfg),
                        !.log = @ \cup CallbackCatchLog(r)]
       ELSE [got EXCEPT !.pc = "FetchingProfile", !.accessToken = r.value,
                        !.calls = Append(@, "user"),
                        !.log = @ \cup {LogEntry("info", "Access token obtained successfully.", {})}]

TokenReturns(f, resp) ==
    /\ flow[f].pc = "Exchanging"
    /\ LET rec == AfterToken(flow[f], resp, config)
       IN IF rec.pc = "Terminal"
          THEN Respond(f, rec)
          ELSE /\ flow' = [flow EXCEPT ![f] = rec]
               /\ UNCHANGED <<env, config, issued, jar, clock>>

\* AfterUser running the token exchange again
AfterUserBackToExchange(rec, resp, cfg) == [rec EXCEPT !.pc = "Exchanging"]

\* await getGitHubUser(accessToken) completes; on a profile the handler goes
\* on into verifyUserPermission, up to its fetch
AfterUser(rec, resp, cfg) ==
    LET user == GetGitHubUser(resp)
        got == [rec EXCEPT !.userResp = resp, !.githubUser = user,
                           !.log = @ \cup GetGitHubUserLog(resp)]
    IN IF user.null
       THEN [got EXCEPT !.pc = "Terminal", !.reply = RedirectError(rec.reply, ProfileMessage, cfg),
                        !.log = @ \cup {LogEntry("error", "Failed to fetch GitHub user profile.", {})}]
       ELSE LET logged == [got EXCEPT !.log = @ \cup
                               {LogEntry("info", "GitHub user profile fetched:", {user.login}),
                                LogEntry("info", "Verifying repository permissions for user:", {user.login})}]
                fmt == VerifyRepoFormat(cfg)
            IN IF fmt.kind = "throw"
               THEN [logged EXCEPT !.pc = "Terminal", !.hasPermission = "threw",
                                   !.reply = CallbackCatch(rec.reply, fmt, cfg),
                                   !.log = @ \cup CallbackCatchLog(fmt)]
               ELSE [logged EXCEPT !.pc = "VerifyingPermission", !.calls = Append(@, "permission")]

UserReturns(f, resp) ==
    /\ flow[f].pc = "FetchingProfile"
    /\ LET rec == AfterUser(flow[f], resp, config)
       IN IF rec.pc = "Terminal"
          THEN Respond(f, rec)
          ELSE /\ flow' = [flow EXCEPT ![f] = rec]
               /\ UNCHANGED <<env, config, issued, jar, clock>>

\* await verifyUserPermission(accessToken, login) completes
AfterPermission(rec, resp, cfg) ==
    LET r == VerifyUserPermission(resp)
        got == [rec EXCEPT !.pc = "Terminal", !.permResp = resp,
                           !.log = @ \cup VerifyUserPermissionLog(resp, rec.githubUser.login)]
    IN IF r.kind = "throw"
       THEN [got EXCEPT !.hasPermission = "threw", !.reply = CallbackCatch(rec.reply, r, cfg),
                        !.log = @ \cup CallbackCatchLog(r)]
       ELSE [got EXCEPT !.hasPermission = IF r.value THEN "true" ELSE "false",
                        !.reply = PermissionBranch(rec.reply, r.value, rec.accessToken, cfg),
                        !.log = @ \cup {IF r.value
                                        THEN LogEntry("info", "User has sufficient permissions", {rec.githubUser.login})
                                        ELSE LogEntry("warn", "User does NOT have sufficient permissions",
                                                      {rec.githubUser.login})}]

PermissionReturns(f, resp) ==
    /\ flow[f].pc = "VerifyingPermission"
    /\ Respond(f, AfterPermission(flow[f], resp, config))

(***************************************************************************)
(* The browser follows the redirect to /success (routes/success.ts serves  *)
(* the page when a token is in the query) and the page's script runs.      *)
(***************************************************************************)
SuccessPageLoads(f, opener) ==
    /\ flow[f].pc = "Terminal"
    /\ flow[f].reply.status = 302
    /\ flow[f].reply.path = "/success"
    /\ ~Falsy(flow[f].reply.token)
    /\ flow' = [flow EXCEPT ![f].pc = "Page",
                            ![f].page = SuccessPageScript(flow[f].reply.token, flow[f].reply.origin, opener)]
    /\ UNCHANGED <<env, config, issued, jar, clock>>

(***************************************************************************)
(* GET /success (routes/success.ts), requested with a query of the         *)
(* client's choosing.                                                      *)
(***************************************************************************)
SuccessQueries == [token : {Absent, "", "gho_A"}, origin : {Absent, "https://evil.example"}]

TokenMissingMessage == "Authentication successful, but token not provided to success handler."

\* reply.sendFile("success.html")
SendFile(reply) == [reply EXCEPT !.status = 200, !.path = "success.html"]

\* the token test as token === undefined: an empty token is served the page
TokenMissingUndefinedOnly(token) == token = Absent

\* !token
TokenMissing(token) == Falsy(token)

\* the handler of /success
SuccessEntry(b, q, cfg) ==
    LET rec == [IdleFlow EXCEPT !.route = "/success", !.browser = b, !.successQuery = q]
    IN IF TokenMissing(q.token)
       THEN [rec EXCEPT !.pc = "Terminal",
                        !.reply = RedirectError(NoReply, TokenMissingMessage, cfg),
                        !.log = {LogEntry("error", "Token missing in /success route query.", {})}]
       ELSE [rec EXCEPT !.pc = "Page",
                        !.reply = SendFile(NoReply),
                        !.log = {LogEntry("info",
                                          "Authentication successful, serving success.html page.", {})}]

\* /success is requested; when the page is served the browser runs its script
\* on the query it was requested with
Success(f, b, q, opener) ==
    /\ Resting(f)
    /\ LET rec == SuccessEntry(b, q, config)
       IN flow' = [flow EXCEPT ![f] =
                      IF rec.pc = "Page"
                      THEN [rec EXCEPT !.page = SuccessPageScript(q.token, q.origin, opener)]
                      ELSE rec]
    /\ UNCHANGED <<env, config, issued, jar, clock>>

(***************************************************************************)
(* GET /error (routes/error.ts), requested with a query of the client's    *)
(* choosing.  A parameter value is a sequence of pieces: "%", one hex      *)
(* digit, or a run of text that holds neither.                             *)
(***************************************************************************)
HexDigits == {"0", "2", "3", "5", "6", "A", "B", "C", "D", "E", "F"}

\* the characters that are written as a piece of their own; every other piece
\* is a run of letters, digits and "."
Reserved == {" ", "%", "+", "&", "=", ":", "/", ","}

\* the two hex digits of the code of a reserved character
EscapeOf(ch) ==
    CASE ch = " " -> <<"2", "0">>
      [] ch = "%" -> <<"2", "5">>
      [] ch = "&" -> <<"2", "6">>
      [] ch = "+" -> <<"2", "B">>
      [] ch = "," -> <<"2", "C">>
      [] ch = "/" -> <<"2", "F">>
      [] ch = ":" -> <<"3", "A">>
      [] ch = "=" -> <<"3", "D">>

\* the character a %XX escape stands for; a byte of 80 and above that no
\* multi-byte sequence holds (%E0) is no character
Unescape(hi, lo) ==
    IF \E ch \in Reserved : EscapeOf(ch) = <<hi, lo>>
    THEN Return(CHOOSE ch \in Reserved : EscapeOf(ch) = <<hi, lo>>)
    ELSE IF hi \in {"A", "B", "C", "D", "E", "F"} THEN Throw("URI malformed")
    ELSE IF hi = "3" /\ lo \in {"0", "2", "3", "5", "6"} THEN Return(lo)
    ELSE Return("\\x" \o hi \o lo)

RECURSIVE DecodeFrom(_, _, _)
DecodeFrom(str, i, acc) ==
    IF i > Len(str) THEN Return(acc)
    ELSE IF str[i] # "%" THEN DecodeFrom(str, i + 1, Append(acc, str[i]))
    ELSE IF i + 2 > Len(str) \/ str[i + 1] \notin HexDigits \/ str[i + 2] \notin HexDigits
    THEN Throw("URI malformed")
    ELSE LET c == Unescape(str[i + 1], str[i + 2])
         IN IF c.kind = "throw" THEN c ELSE DecodeFrom(str, i + 3, Append(acc, c.value))

\* decodeURIComponent: the decoded string, or URIError on a "%" that two hex
\* digits naming a character do not follow
DecodeURIComponent(str) == DecodeFrom(str, 1, <<>>)

ErrorValues ==
    {<<>>, <<"CSRF", "%", "2", "0", "failed">>, <<"Denied">>, <<"100", "%">>, <<"%", "E", "0">>}

ErrorOrigins == {<<"https://cms.example.com">>}

ErrorQueries ==
    UNION {{q \in [present -> ErrorValues \cup ErrorOrigins] :
               \A k \in present : (k = "origin") <=> (q[k] \in ErrorOrigins)} :
           present \in SUBSET {"error", "message", "origin"}}

\* the parameter is present and not empty
Truthy(q, k) == k \in DOMAIN q /\ q[k] # <<>>

DefaultErrorMessage == <<"An unspecified error occurred.">>

\* request.query.error || request.query.message || "An unspecified error occurred."
ErrorMessage(q) ==
    IF Truthy(q, "error") THEN q["error"]
    ELSE IF Truthy(q, "message") THEN q["message"]
    ELSE DefaultErrorMessage

\* reply.sendFile("error.html")
SendErrorFile(reply) == [reply EXCEPT !.status = 200, !.path = "error.html"]

\* the handler of /error: the log line is built first; when decoding throws
\* the handler's promise rejects and the framework answers
ErrorEntry(b, q) ==
    LET rec == [IdleFlow EXCEPT !.pc = "Terminal", !.route = "/error", !.browser = b,
                                !.errorQuery = q]
        decoded == DecodeURIComponent(ErrorMessage(q))
    IN IF decoded.kind = "throw"
       THEN [rec EXCEPT !.reply = FrameworkError(NoReply)]
       ELSE [rec EXCEPT !.reply = SendErrorFile(NoReply),
                        !.log = {LogEntry("warn", "Displaying error page with message:",
                                          {decoded.value})}]

Error(f, b, q) ==
    /\ Resting(f)
    /\ flow' = [flow EXCEPT ![f] = ErrorEntry(b, q)]
    /\ UNCHANGED <<env, config, issued, jar, clock>>

----------------------------------------------------------------------------
\* The browser follows a redirect to /error: the reason travels in the query
\* string of the Location header.

\* the characters of a failure reason, in pieces
ReasonChars(msg) ==
    CASE msg = "Failed to initiate authentication." ->
             <<"Failed", " ", "to", " ", "initiate", " ", "authentication.">>
      [] msg = "CSRF validation failed: Invalid state cookie signature." ->
             <<"CSRF", " ", "validation", " ", "failed", ":", " ", "Invalid", " ", "state", " ",
               "cookie", " ", "signature.">>
      [] msg = "CSRF validation failed: State parameter mismatch or missing." ->
             <<"CSRF", " ", "validation", " ", "failed", ":", " ", "State", " ", "parameter", " ",
               "mismatch", " ", "or", " ", "missing.">>
      [] msg = "An error occurred during GitHub authentication." ->
             <<"An", " ", "error", " ", "occurred", " ", "during", " ", "GitHub", " ",
               "authentication.">>
      [] msg = "Authorization code missing from GitHub callback." ->
             <<"Authorization", " ", "code", " ", "missing", " ", "from", " ", "GitHub", " ",
               "callback.">>
      [] msg = "Failed to fetch user profile from GitHub." ->
             <<"Failed", " ", "to", " ", "fetch", " ", "user", " ", "profile", " ", "from", " ",
               "GitHub.">>
      [] msg = "Access Denied: You do not have sufficient permissions for the configured repository." ->
             <<"Access", " ", "Denied", ":", " ", "You", " ", "do", " ", "not", " ", "have", " ",
               "sufficient", " ", "permissions", " ", "for", " ", "the", " ", "configured", " ",
               "repository.">>
      [] msg = "An internal error occurred during callback processing." ->
             <<"An", " ", "internal", " ", "error", " ", "occurred", " ", "during", " ",
               "callback", " ", "processing.">>
      [] msg = "Authentication successful, but token not provided to success handler." ->
             <<"Authentication", " ", "successful", ",", " ", "but", " ", "token", " ", "not", " ",
               "provided", " ", "to", " ", "success", " ", "handler.">>
      [] msg = "User denied" -> <<"User", " ", "denied">>
      [] msg = "100%" -> <<"100", "%">>
      [] msg = "%20" -> <<"%", "2", "0">>
      [] msg = "a+b&c=d" -> <<"a", "+", "b", "&", "c", "=", "d">>
      [] msg = "https://cms.example.com" -> <<"https", ":", "/", "/", "cms.example.com">>
      [] msg = "*" -> <<"*">>

RECURSIVE Concat(_)
Concat(seqs) == IF seqs = <<>> THEN <<>> ELSE Head(seqs) \o Concat(Tail(seqs))

\* encodeURIComponent leaving every character as it is
EncodeURIComponentNothing(str) == str

\* encodeURIComponent: a reserved character becomes its %XX escape
EncodeURIComponent(str) ==
    Concat([i \in 1..Len(str) |->
               IF str[i] \in Reserved THEN <<"%">> \o EscapeOf(str[i]) ELSE <<str[i]>>])

\* the serializer of URLSearchParams: a space becomes "+", every other
\* reserved character its %XX escape
FormEncode(str) ==
    Concat([i \in 1..Len(str) |->
               IF str[i] = " " THEN <<"+">>
               ELSE IF str[i] \in Reserved THEN <<"%">> \o EscapeOf(str[i])
               ELSE <<str[i]>>])

\* new URLSearchParams({ error, origin }).toString()
RECURSIVE ParamsToString(_)
ParamsToString(params) ==
    IF params = <<>> THEN <<>>
    ELSE <<params[1][1], "=">> \o FormEncode(params[1][2])
             \o (IF Len(params) = 1 THEN <<>> ELSE <<"&">> \o ParamsToString(Tail(params)))

\* the query string of the Location header of a redirect to /error
ErrorLocation(reply) ==
    ParamsToString(<<<<"error", EncodeURIComponent(ReasonChars(reply.error))>>,
                     <<"origin", ReasonChars(reply.origin)>>>>)

RECURSIVE SplitFrom(_, _, _, _)
SplitFrom(str, sep, i, cur) ==
    IF i > Len(str) THEN <<cur>>
    ELSE IF str[i] = sep THEN <<cur>> \o SplitFrom(str, sep, i + 1, <<>>)
    ELSE SplitFrom(str, sep, i + 1, Append(cur, str[i]))

\* the value of a parameter as the framework's query parser decodes it: "+"
\* is a space, then the escapes; a value that does not decode is kept
FormDecode(str) ==
    LET spaced == [i \in 1..Len(str) |-> IF str[i] = "+" THEN " " ELSE str[i]]
        decoded == DecodeURIComponent(spaced)
    IN IF decoded.kind = "throw" THEN spaced ELSE decoded.value

\* the part of key=value before and after the first "="
KeyOf(pair) ==
    IF \E i \in 1..Len(pair) : pair[i] = "="
    THEN SubSeq(pair, 1, (CHOOSE i \in 1..Len(pair) :
                             pair[i] = "=" /\ \A j \in 1..(i - 1) : pair[j] # "=") - 1)
    ELSE pair

ValueOf(pair) == SubSeq(pair, Len(KeyOf(pair)) + 2, Len(pair))

\* request.query of the request the browser makes for the query string
ParseQuery(str) ==
    LET pairs == SplitFrom(str, "&", 1, <<>>)
        named == {i \in 1..Len(pairs) : Len(KeyOf(pairs[i])) = 1}
        keys == {KeyOf(pairs[i])[1] : i \in named}
    IN [k \in keys |->
           FormDecode(ValueOf(pairs[CHOOSE i \in named :
                                        /\ KeyOf(pairs[i])[1] = k
                                        /\ \A j \in named : KeyOf(pairs[j])[1] = k => i <= j]))]

\* the browser follows the redirect and the handler of /error answers
ErrorPageLoads(f) ==
    /\ flow[f].pc = "Terminal"
    /\ flow[f].reply.status = 302
    /\ flow[f].reply.path = "/error"
    /\ flow' = [flow EXCEPT ![f] =
                   [ErrorEntry(flow[f].browser, ParseQuery(ErrorLocation(flow[f].reply)))
                        EXCEPT !.redirectedBy = flow[f].reply]]
    /\ UNCHANGED <<env, config, issued, jar, clock>>

\* the popup is closed, or navigates away from the page it shows
Close(f) ==
    /\ flow[f].pc \in {"AwaitingCallback", "Terminal", "Page"}
    /\ flow' = [flow EXCEPT ![f] = IdleFlow]
    /\ UNCHANGED <<env, config, issued, jar, clock>>

Next ==
    \E f \in OnePopup :
        \/ \E b \in Browsers, s \in States, t \in AuthThrowPoints : Auth(f, b, s, t)
        \/ \E b \in Browsers, q \in Queries :
               \E c \in SendableCookies(issued) \cup {jar[b]} : Callback(f, b, q, c)
        \/ \E resend \in BOOLEAN : CallbackAgain(f, resend)
        \/ \E resp \in TokenResponses : TokenReturns(f, resp)
        \/ \E resp \in UserResponses : UserReturns(f, resp)
        \/ \E resp \in PermResponses : PermissionReturns(f, resp)
        \/ \E opener \in BOOLEAN : SuccessPageLoads(f, opener)
        \/ \E b \in Browsers, q \in SuccessQueries, opener \in BOOLEAN : Success(f, b, q, opener)
        \/ \E b \in Browsers, q \in ErrorQueries : Error(f, b, q)
        \/ Close(f)

Spec == Init /\ [][Next]_vars

----------------------------------------------------------------------------
\* Two popups, each in its own browser, run the flow at the same time; every
\* await of one request can be overtaken by any step of the other.

BrowserOf(f) == IF f = "f1" THEN "b1" ELSE "b2"

\* the provider redirects back with the state it was given and a code
ProviderQueries(b) ==
    {q \in Queries : q.state = jar[b].value /\ q.code = "code-1" /\ q.error = Absent}

ConcurrentTokenResponses ==
    {resp \in TokenResponses : resp.kind = "network" \/ resp.access_token \in Tokens}

ConcurrentUserResponses ==
    {resp \in UserResponses : resp.kind = "network" \/ resp.body = "profile"}

ConcurrentPermResponses ==
    {resp \in PermResponses : resp.kind = "network" \/ resp.permission \in {"write", "read"}}

NextConcurrent ==
    \E f \in Flows :
        \/ \E s \in States : Auth(f, BrowserOf(f), s, "none")
        \/ \E q \in ProviderQueries(BrowserOf(f)) : Callback(f, BrowserOf(f), q, jar[BrowserOf(f)])
        \/ \E resp \in ConcurrentTokenResponses : TokenReturns(f, resp)
        \/ \E resp \in ConcurrentUserResponses : UserReturns(f, resp)
        \/ \E resp \in ConcurrentPermResponses : PermissionReturns(f, resp)
        \/ Close(f)

SpecConcurrent == Init /\ [][NextConcurrent]_vars

\* every await of a provider call settles: fetch and oauthClient.getToken
\* resolve or reject, and the handler is resumed
CallsSettle ==
    \A f \in Flows :
        /\ WF_vars(\E resp \in ConcurrentTokenResponses : TokenReturns(f, resp))
        /\ WF_vars(\E resp \in ConcurrentUserResponses : UserReturns(f, resp))
        /\ WF_vars(\E resp \in ConcurrentPermResponses : PermissionReturns(f, resp))

SpecSettling == Init /\ [][NextConcurrent]_vars /\ CallsSettle

----------------------------------------------------------------------------
\* One browser session with two popups: /auth can be requested in the second
\* before the provider has redirected the first back.

SessionBrowser == "b1"

\* the provider redirects the popup back to /callback with the state of its
\* /auth and a code; the browser sends the cookie its jar holds.  awaited
\* notes the states whose callback was still to come, this one included.
CallbackArrives(f) ==
    /\ flow[f].pc = "AwaitingCallback"
    /\ LET b == flow[f].browser
           q == [code |-> "code-1", state |-> flow[f].reply.state, error |-> Absent,
                 error_description |-> Absent]
           rec == [CallbackEntry(b, q, jar[b], config, jar[b])
                       EXCEPT !.arrivedAt = clock.now,
                              !.awaited = {flow[g].reply.state :
                                              g \in {h \in Flows : flow[h].pc = "AwaitingCallback"}}]
       IN IF rec.pc = "Terminal"
          THEN Respond(f, rec)
          ELSE /\ flow' = [flow EXCEPT ![f] = rec]
               /\ UNCHANGED <<env, config, issued, jar, clock>>

NextSession ==
    \E f \in Flows :
        \/ \E s \in States : Auth(f, SessionBrowser, s, "none")
        \/ CallbackArrives(f)
        \/ \E resp \in ConcurrentTokenResponses : TokenReturns(f, resp)
        \/ \E resp \in ConcurrentUserResponses : UserReturns(f, resp)
        \/ \E resp \in ConcurrentPermResponses : PermissionReturns(f, resp)
        \/ Close(f)

SpecSession == Init /\ [][NextSession]_vars

----------------------------------------------------------------------------
\* Every failure of /auth, /callback and /success, followed to /error by the
\* browser.  The provider sends back descriptions of its own wording.
RoundTripDescriptions == {Absent, "User denied", "100%", "%20", "a+b&c=d"}

RoundTripQueries ==
    {q \in [code : {Absent, "code-1"}, state : States \cup {Absent}, error : QueryErrors,
            error_description : RoundTripDescriptions] :
        q.error = Absent => q.error_description = Absent}

NextRoundTrip ==
    \E f \in OnePopup :
        \/ \E s \in States, t \in AuthThrowPoints : Auth(f, SessionBrowser, s, t)
        \/ \E q \in RoundTripQueries :
               \E c \in SendableCookies(issued) \cup {jar[SessionBrowser]} :
                   Callback(f, SessionBrowser, q, c)
        \/ \E resp \in TokenResponses : TokenReturns(f, resp)
        \/ \E resp \in UserResponses : UserReturns(f, resp)
        \/ \E resp \in PermResponses : PermissionReturns(f, resp)
        \/ \E q \in SuccessQueries, opener \in BOOLEAN : Success(f, SessionBrowser, q, opener)
        \/ ErrorPageLoads(f)
        \/ Close(f)

SpecRoundTrip == Init /\ [][NextRoundTrip]_vars

----------------------------------------------------------------------------
\* Time passes between /auth and /callback.  The server keeps no time: the
\* max-age of the cookie is acted on by the browser, which stops sending the
\* cookie once it is older.

TickSeconds == 150

MaxTicks == 3

\* a browser that keeps the cookie for ever
ExpireCookieNever(held, setAt, now) == held

\* what a browser's jar holds of a cookie set at setAt with Max-Age MaxAge
ExpireCookie(held, setAt, now) ==
    IF held # EmptyCookie /\ now - setAt > MaxAge THEN EmptyCookie ELSE held

Tick ==
    /\ clock.now < MaxTicks * TickSeconds
    /\ clock' = [clock EXCEPT !.now = @ + TickSeconds]
    /\ jar' = [b \in Browsers |->
                  IF jar[b] = EmptyCookie THEN EmptyCookie
                  ELSE ExpireCookie(jar[b], clock.issuedAt[jar[b].value], clock.now + TickSeconds)]
    /\ UNCHANGED <<env, config, issued, flow>>

\* the provider redirects back, late or not, with a state that was issued; the
\* client sends the cookie its jar holds or one it has kept
NextExpiry ==
    \/ Tick
    \/ \E f \in OnePopup :
           \/ \E b \in Browsers, s \in States : Auth(f, b, s, "none")
           \/ \E b \in Browsers, q \in {q \in Queries : q.state \in issued /\ q.code = "code-1"
                                                          /\ q.error = Absent} :
                  \E c \in SendableCookies(issued) \cup {jar[b]} : Callback(f, b, q, c)
           \/ \E resp \in ConcurrentTokenResponses : TokenReturns(f, resp)
           \/ \E resp \in ConcurrentUserResponses : UserReturns(f, resp)
           \/ \E resp \in ConcurrentPermResponses : PermissionReturns(f, resp)
           \/ Close(f)

SpecExpiry == Init /\ [][NextExpiry]_vars

----------------------------------------------------------------------------
\* Startup: config.ts is evaluated once, when the process starts, against the
\* environment it finds.

MaxOptionalSet == 1

\* what a variable of the environment can hold
EnvValues(k) ==
    IF k = "GITHUB_REPO" THEN {Unset, "", "o/r", "or"}
    ELSE IF k = "FRONTEND_URL" THEN {Unset, "", "https://cms.example.com"}
    ELSE IF k = "PORT" THEN {Unset, "", "8080"}
    ELSE {Unset, "", "set"}

\* what the required variables can hold
RequiredEnvs ==
    {r \in [RequiredKeys -> {Unset, "", "o/r", "or", "https://cms.example.com", "set"}] :
        \A k \in RequiredKeys : r[k] \in EnvValues(k)}

\* what the optional variables can hold when those of present are set
OptionalEnvs(present) ==
    {o \in [present -> {"", "8080", "set"}] : \A k \in present : o[k] \in EnvValues(k)}

\* the environments with at most MaxOptionalSet optional variables present
Envs ==
    UNION {{[k \in EnvKeys |->
                IF k \in RequiredKeys THEN r[k] ELSE IF k \in present THEN o[k] ELSE Unset] :
             r \in RequiredEnvs, o \in OptionalEnvs(present)} :
           present \in {p \in SUBSET OptionalKeys : Cardinality(p) <= MaxOptionalSet}}

InitConfig ==
    /\ env \in Envs
    /\ config = NotLoaded
    /\ issued = {}
    /\ jar = [b \in Browsers |-> EmptyCookie]
    /\ flow = [f \in Flows |-> IdleFlow]
    /\ clock = StartClock

\* the process starts: the configuration module is evaluated
Startup ==
    /\ config = NotLoaded
    /\ config' = LoadConfig(env)
    /\ UNCHANGED <<env, issued, jar, flow, clock>>

NextConfig == Startup

SpecConfig == InitConfig /\ [][NextConfig]_vars

(***************************************************************************)
(* Properties.                                                             *)
(***************************************************************************)
\* a /callback request that has been answered
Answered(r) == r.route = "/callback" /\ r.pc \in {"Terminal", "Page"}

\* a /callback request that has been received
Received(r) == r.route = "/callback" /\ r.pc # "Idle"

\* everything the success redirect requires, in one request
AllHeld(r) ==
    /\ r.validated
    /\ Falsy(r.query.error)
    /\ ~Falsy(r.query.code)
    /\ r.tokenResp.kind = "ok"
    /\ TypeOf(r.tokenResp.access_token) = "string"
    /\ ~r.githubUser.null
    /\ r.hasPermission = "true"

\* C1: an answered /callback redirects to /success exactly when, in that same
\* request, validation passed, there was no provider error, a code was
\* present, the exchange gave a string token, the profile was not null and the
\* permission check returned true; in every other case it redirects to /error.
C1_SuccessOnlyIfAllHeld ==
    \A f \in Flows :
        Answered(flow[f]) =>
            /\ (flow[f].reply.path = "/success") <=> AllHeld(flow[f])
            /\ (flow[f].reply.path = "/error") <=> ~AllHeld(flow[f])

C1_Witness ==
    \E f \in Flows :
        /\ Answered(flow[f])
        /\ flow[f].pc = "Terminal"
        /\ flow[f].reply.path = "/success"
        /\ flow[f].permResp.permission = "write"

\* the cookie is absent, or its signature is not the server's for its value,
\* or the query state is absent or empty, or the two values differ
BadState(r) ==
    \/ r.cookie = EmptyCookie
    \/ r.cookie.sig # Hmac(r.cookie.value, config.sessionSecret)
    \/ Falsy(r.query.state)
    \/ r.cookie.value # r.query.state

\* C2: a /callback whose cookie is absent or wrongly signed, whose query state
\* is absent, or whose cookie value differs from the query state fails
\* validation, is answered with a redirect to /error, and makes no provider
\* call.
C2_InvalidStateRejected ==
    \A f \in Flows :
        (Received(flow[f]) /\ BadState(flow[f])) =>
            /\ ~flow[f].validated
            /\ flow[f].pc = "Terminal"
            /\ flow[f].reply.status = 302
            /\ flow[f].reply.path = "/error"
            /\ flow[f].calls = <<>>

C2_Witness ==
    \E f \in Flows :
        /\ Received(flow[f])
        /\ flow[f].cookie.sig = Hmac(flow[f].cookie.value, config.sessionSecret)
        /\ flow[f].query.state \in States
        /\ flow[f].cookie.value # flow[f].query.state
        /\ flow[f].reply.path = "/error"

\* C3 as claimed: whatever cookie the client sends, a /callback that presents
\* a state value again, after the first callback for it has been answered,
\* fails validation.
C3_SingleUseForAnyClient ==
    \A f \in Flows : (Received(flow[f]) /\ flow[f].replay) => ~flow[f].validated

\* C3, amended: a /callback that presents a state value again after the
\* browser has received the answer to the first one, and that sends the
\* cookie the browser's jar then holds, fails validation.
C3_SingleUseForCookieJar ==
    \A f \in Flows :
        (Received(flow[f]) /\ flow[f].replay /\ flow[f].fromJar) => ~flow[f].validated

C3_Witness ==
    \E f \in Flows :
        /\ Received(flow[f])
        /\ flow[f].replay
        /\ flow[f].fromJar
        /\ flow[f].firstPassed
        /\ flow[f].query.state \in issued
        /\ flow[f].reply.path = "/error"

\* C4: every /callback request, whatever the query, the cookie and the
\* provider's behaviour, is answered by exactly one redirect, with status 302,
\* to /success or /error; nothing is answered before that, and no error
\* leaves the handler.
C4_AlwaysOneRedirect ==
    \A f \in Flows :
        /\ Answered(flow[f]) =>
               /\ flow[f].reply.status = 302
               /\ flow[f].reply.redirects = 1
               /\ flow[f].reply.path \in {"/success", "/error"}
        /\ (Received(flow[f]) /\ ~Answered(flow[f])) => flow[f].reply.redirects = 0

C4_Witness ==
    \E f \in Flows :
        /\ Answered(flow[f])
        /\ flow[f].tokenResp.kind = "network"
        /\ flow[f].reply.status = 302
        /\ flow[f].reply.path = "/error"

\* every log entry of the flow: the server's and the success page's console
AllLogs(r) == r.log \cup r.page.console

\* C5: the access token of a flow is in the token parameter of the redirect to
\* /success and nowhere else: in no redirect to /error and in no log entry of
\* the server or of the success page.
C5_TokenOnlyInSuccessRedirect ==
    \A f \in Flows :
        flow[f].accessToken # Absent =>
            /\ \A e \in AllLogs(flow[f]) : flow[f].accessToken \notin e.data
            /\ flow[f].reply.path = "/error" =>
                   (flow[f].reply.token = Absent /\ flow[f].reply.error # flow[f].accessToken)

\* the permission endpoint answered with a permission object
PermissionGiven(r) ==
    r.permResp.kind = "http" /\ r.permResp.status = 200 /\ r.permResp.body = "object"

\* C6: with a successful response, permission admin, write or maintain gives
\* true and read, none or any other string gives false; a 404 gives false and
\* raises nothing.
C6_PermissionClassification ==
    \A f \in Flows :
        /\ (PermissionGiven(flow[f]) /\ flow[f].permResp.permission \in {"admin", "write", "maintain"})
               => flow[f].hasPermission = "true"
        /\ (PermissionGiven(flow[f]) /\ flow[f].permResp.permission \notin {"admin", "write", "maintain"})
               => flow[f].hasPermission = "false"
        /\ (flow[f].permResp.kind = "http" /\ flow[f].permResp.status = 404)
               => flow[f].hasPermission = "false"

C6_Witness ==
    \E f \in Flows :
        /\ PermissionGiven(flow[f])
        /\ flow[f].permResp.permission = "maintain"
        /\ flow[f].hasPermission = "true"

\* the permission endpoint answered with a non-success status other than 404
PermissionStatusError(r) ==
    r.permResp.kind = "http" /\ ~ResponseOk(r.permResp) /\ r.permResp.status # 404

\* C7: on a non-success status other than 404 the permission check raises an
\* error instead of returning false, and the flow ends with the generic
\* internal-error reason, not with the access-denied reason.
C7_StatusErrorIsHardError ==
    \A f \in Flows :
        PermissionStatusError(flow[f]) =>
            /\ flow[f].hasPermission = "threw"
            /\ flow[f].reply.error = CallbackErrorMessage

\* the permission request failed, or its body is not JSON
PermissionFault(r) ==
    \/ r.permResp.kind = "network"
    \/ (r.permResp.kind = "http" /\ r.permResp.status = 200 /\ r.permResp.body = "malformed")

\* C8: when the permission request throws or its body is not JSON the check
\* returns false and the flow is redirected to /error; no fault in the
\* permission check (those two, a null body, an error status, a malformed
\* repository setting) leads to /success.
C8_PermissionFailsClosed ==
    \A f \in Flows :
        /\ PermissionFault(flow[f]) =>
               /\ flow[f].hasPermission = "false"
               /\ flow[f].reply.status = 302
               /\ flow[f].reply.path = "/error"
        /\ (\/ PermissionFault(flow[f])
            \/ PermissionStatusError(flow[f])
            \/ (flow[f].permResp.kind = "http" /\ flow[f].permResp.body = "null")
            \/ flow[f].hasPermission = "threw")
               => flow[f].reply.path # "/success"

C8_Witness ==
    \E f \in Flows :
        /\ flow[f].permResp.kind = "http"
        /\ flow[f].permResp.body = "malformed"
        /\ flow[f].hasPermission = "false"
        /\ flow[f].reply.path = "/error"

\* the Set-Cookie directive that removes the oauth_state cookie at path "/"
ClearsStateCookie(sc) == sc.name = "oauth_state" /\ sc.path = "/" /\ sc.clear

\* C9: the reply to every /callback carries the directive that clears the
\* oauth_state cookie, from before validation is acted on until the answer,
\* whether validation passed or failed.
C9_EveryCallbackClearsCookie ==
    \A f \in Flows : Received(flow[f]) => ClearsStateCookie(flow[f].reply.setCookie)

C9_Witness ==
    \E f \in Flows :
        /\ Received(flow[f])
        /\ flow[f].validated
        /\ flow[f].pc = "VerifyingPermission"
        /\ ClearsStateCookie(flow[f].reply.setCookie)

\* C10: a first /callback that sends the cookie /auth put in the browser's
\* jar, with a query state equal to the value that cookie carries, passes
\* validation.
C10_IssuedStateValidates ==
    \A f \in Flows :
        (/\ Received(flow[f])
         /\ ~flow[f].replay
         /\ flow[f].fromJar
         /\ flow[f].cookie # EmptyCookie
         /\ flow[f].query.state = flow[f].cookie.value)
            => flow[f].validated

C10_Witness ==
    \E f \in Flows :
        /\ Received(flow[f])
        /\ ~flow[f].replay
        /\ flow[f].fromJar
        /\ flow[f].query.state \in issued
        /\ flow[f].query.state = flow[f].cookie.value
        /\ flow[f].validated

\* the token exchange did not give a string token: a non-success response, a
\* network failure, or an access token that is not a string
TokenExchangeFailed(r) ==
    \/ r.tokenResp.kind \in {"status", "network"}
    \/ (r.tokenResp.kind = "ok" /\ TypeOf(r.tokenResp.access_token) # "string")

\* the catch block of the /callback handler has run
CaughtInHandler(r) == \E e \in r.log : e.msg = "Error in /callback route processing"

\* C11: when the token exchange fails (non-success response, network failure,
\* access token not a string) getToken throws, the handler answers with one
\* redirect to /error, and neither the profile fetch nor the permission check
\* is called.
C11_FailedExchangeEndsFlow ==
    \A f \in Flows :
        TokenExchangeFailed(flow[f]) =>
            /\ flow[f].pc = "Terminal"
            /\ flow[f].accessToken = Absent
            /\ CaughtInHandler(flow[f])
            /\ flow[f].reply.status = 302
            /\ flow[f].reply.path = "/error"
            /\ flow[f].reply.redirects = 1
            /\ flow[f].calls = <<"token">>
            /\ flow[f].userResp = NoUserResp
            /\ flow[f].permResp = NoPermResp

C11_Witness ==
    \E f \in Flows :
        /\ flow[f].tokenResp.kind = "ok"
        /\ flow[f].tokenResp.access_token = NonString
        /\ flow[f].reply.path = "/error"
        /\ flow[f].calls = <<"token">>

\* the profile request got a non-success status or failed on the network
ProfileFetchFailed(r) ==
    \/ r.userResp.kind = "network"
    \/ (r.userResp.kind = "http" /\ ~ResponseOk(r.userResp))

\* C12: on a non-success status or a network failure getGitHubUser returns
\* null and throws nothing; the flow then ends in a redirect to /error with
\* the profile-unavailable reason, not the access-denied one, and the
\* permission check is not called.
C12_ProfileFailureEndsFlow ==
    \A f \in Flows :
        ProfileFetchFailed(flow[f]) =>
            /\ flow[f].githubUser.null
            /\ ~CaughtInHandler(flow[f])
            /\ flow[f].pc = "Terminal"
            /\ flow[f].reply.status = 302
            /\ flow[f].reply.path = "/error"
            /\ flow[f].reply.error = ProfileMessage
            /\ flow[f].reply.error # AccessDeniedMessage
            /\ flow[f].calls = <<"token", "user">>
            /\ flow[f].permResp = NoPermResp
            /\ flow[f].hasPermission = "unset"

C12_Witness ==
    \E f \in Flows :
        /\ flow[f].userResp.kind = "http"
        /\ flow[f].userResp.status = 401
        /\ flow[f].githubUser.null
        /\ flow[f].reply.error = ProfileMessage

\* C13: a validated /callback whose query carries error ends in a redirect to
\* /error whose reason is error_description when that is present and the
\* fixed fallback otherwise, whether or not code is present, and no token
\* exchange is attempted.
C13_ProviderErrorFirst ==
    \A f \in Flows :
        (Received(flow[f]) /\ flow[f].validated /\ ~Falsy(flow[f].query.error)) =>
            /\ flow[f].pc = "Terminal"
            /\ flow[f].reply.status = 302
            /\ flow[f].reply.path = "/error"
            /\ flow[f].reply.error =
                   (IF Falsy(flow[f].query.error_description)
                    THEN "An error occurred during GitHub authentication."
                    ELSE flow[f].query.error_description)
            /\ flow[f].calls = <<>>
            /\ flow[f].tokenResp = NoTokenResp

C13_Witness ==
    \E f \in Flows :
        /\ flow[f].validated
        /\ flow[f].query.error = "access_denied"
        /\ flow[f].query.error_description = "User denied"
        /\ flow[f].query.code = "code-1"
        /\ flow[f].reply.error = "User denied"

\* C14: a validated /callback whose query has neither error nor a non-empty
\* code ends in a redirect to /error with the authorization-code-missing
\* reason, and no provider call is made.
C14_MissingCodeEndsFlow ==
    \A f \in Flows :
        (Received(flow[f]) /\ flow[f].validated /\ Falsy(flow[f].query.error)
             /\ Falsy(flow[f].query.code)) =>
            /\ flow[f].pc = "Terminal"
            /\ flow[f].reply.status = 302
            /\ flow[f].reply.path = "/error"
            /\ flow[f].reply.error = CodeMissingMessage
            /\ flow[f].calls = <<>>

C14_Witness ==
    \E f \in Flows :
        /\ flow[f].validated
        /\ flow[f].query.error = Absent
        /\ flow[f].query.code = ""
        /\ flow[f].reply.error = CodeMissingMessage

\* C15: when a step after validation throws into the handler (the token
\* exchange, or the permission check on a malformed repository setting) the
\* reason of the redirect is the one fixed internal-error message, and what
\* the handler logs of the error (its message, its stack) is not in the
\* redirect.
C15_GenericInternalError ==
    \A f \in Flows :
        Received(flow[f]) =>
            /\ (TokenExchangeFailed(flow[f]) \/ flow[f].hasPermission = "threw" \/ CaughtInHandler(flow[f]))
                   => /\ flow[f].pc = "Terminal"
                      /\ flow[f].reply.path = "/error"
                      /\ flow[f].reply.error = CallbackErrorMessage
            /\ \A e \in flow[f].log :
                   e.msg = "Error in /callback route processing" =>
                       /\ flow[f].reply.error \notin e.data
                       /\ flow[f].reply.token \notin e.data

C15_Witness ==
    \E f \in Flows :
        /\ flow[f].hasPermission = "threw"
        /\ CaughtInHandler(flow[f])
        /\ flow[f].reply.error = CallbackErrorMessage

\* C16 as claimed: a /callback that fails validation is redirected with the
\* same reason whether the cookie's signature was invalid or the state did
\* not match.
C16_CsrfReasonUniform ==
    \A f \in Flows :
        (Received(flow[f]) /\ ~flow[f].validated) =>
            /\ flow[f].reply.error = CsrfMessage([valid |-> FALSE, value |-> Absent])
            /\ flow[f].reply.error = CsrfMessage([valid |-> TRUE, value |-> flow[f].cookie.value])

\* C17: every redirect to /success or /error that /auth, /callback or
\* /success produces carries as origin the configured FRONTEND_URL, whatever
\* the request held.
C17_OriginFromConfig ==
    \A f \in Flows :
        (flow[f].reply.status = 302 /\ flow[f].reply.path \in {"/success", "/error"}) =>
            /\ flow[f].reply.origin = config.frontendUrl
            /\ flow[f].reply.origin = env["FRONTEND_URL"]

C17_Witness ==
    \E f \in Flows :
        /\ flow[f].route = "/success"
        /\ flow[f].successQuery.origin = "https://evil.example"
        /\ flow[f].reply.path = "/error"
        /\ flow[f].reply.origin = "https://cms.example.com"

\* C18: the token of a redirect to /success is the access-token string the
\* token exchange of that same request returned, unchanged, also when another
\* flow is in progress at the same time with a token of its own.
C18_TokenOfOwnExchange ==
    \A f \in Flows :
        flow[f].reply.path = "/success" =>
            /\ flow[f].tokenResp.kind = "ok"
            /\ TypeOf(flow[f].tokenResp.access_token) = "string"
            /\ flow[f].reply.token = flow[f].tokenResp.access_token

C18_Witness ==
    /\ flow["f1"].reply.path = "/success"
    /\ flow["f2"].reply.path = "/success"
    /\ flow["f1"].reply.token = "gho_A"
    /\ flow["f2"].reply.token = "gho_B"
    /\ flow["f1"].query.code = flow["f2"].query.code

\* C19 as claimed: with a target repository that lacks "/" the process serves
\* no request, and the malformed value is never found while a /callback is
\* being processed.
C19_MalformedRepoStopsStartup ==
    \A f \in Flows :
        Received(flow[f]) =>
            /\ RepoIncludesSlash(config.repo)
            /\ flow[f].hasPermission # "threw"

\* a required variable is unset or empty
RequiredMissing(e) == \E k \in RequiredKeys : e[k] \in {Unset, ""}

\* the value the configuration holds for an optional variable
Loaded(cfg, k) ==
    CASE k = "NODE_ENV" -> cfg.nodeEnv
      [] k = "PORT" -> cfg.port
      [] k = "HOST" -> cfg.host
      [] k = "GITHUB_SCOPE" -> cfg.scope
      [] k = "SESSION_SECRET" -> cfg.sessionSecret
      [] k = "RATE_LIMIT_REQUESTS" -> cfg.rateLimitRequests
      [] k = "RATE_LIMIT_WINDOW_MINUTES" -> cfg.rateLimitWindowMinutes
      [] k = "LOG_LEVEL" -> cfg.logLevel

C21_SuccessNeedsToken ==
    \A f \in Flows :
        flow[f].route = "/success" =>
            /\ flow[f].successQuery.token \in {Absent, ""} =>
                   /\ flow[f].reply.status = 302
                   /\ flow[f].reply.path = "/error"
                   /\ flow[f].reply.error =
                          "Authentication successful, but token not provided to success handler."
                   /\ flow[f].reply.origin = config.frontendUrl
                   /\ ~flow[f].page.loaded
            /\ flow[f].successQuery.token \notin {Absent, ""} =>
                   /\ flow[f].reply.status = 200
                   /\ flow[f].reply.path = "success.html"
                   /\ flow[f].reply.redirects = 0
                   /\ flow[f].page.loaded

C21_Witness ==
    \E f \in Flows :
        /\ flow[f].route = "/success"
        /\ flow[f].successQuery.token = ""
        /\ flow[f].reply.path = "/error"

\* the origin parameter the success page of the flow was loaded with
PageOriginParam(r) == IF r.route = "/success" THEN r.successQuery.origin ELSE r.reply.origin

\* the token parameter the success page of the flow was loaded with
PageTokenParam(r) == IF r.route = "/success" THEN r.successQuery.token ELSE r.reply.token

\* C22 as claimed: when the success page's origin parameter is "*" or absent,
\* or no opener is available, it shows an inline error and posts no message at all to the opener.
C22_NoMessageAtAll ==
    \A f \in Flows :
        (flow[f].page.loaded
            /\ (PageOriginParam(flow[f]) \in {Absent, "", "*"} \/ ~flow[f].page.opener)) =>
            /\ flow[f].page.posted = {}
            /\ flow[f].page.status # "Authentication successful. Closing window..."

\* C22, amended: when the success page's origin parameter is "*" or absent,
\* or no opener is available, the page shows an inline error, stays open and
\* posts no message that carries the token; without an opener it posts
\* nothing, and with one the only message is the token-free
\* "authorizing:github" sent before the parameters are read.
C22_NoTokenMessage ==
    \A f \in Flows :
        (flow[f].page.loaded
            /\ (PageOriginParam(flow[f]) \in {Absent, "", "*"} \/ ~flow[f].page.opener)) =>
            /\ flow[f].page.status \in
                   {"Error: Authentication token not found.",
                    "Error: Target origin for authentication response not specified correctly.",
                    "Error: Cannot find the main window to send authentication details."}
            /\ ~flow[f].page.closed
            /\ \A m \in flow[f].page.posted :
                   m = PostedMessage("authorizing:github", Absent, "*")
            /\ ~flow[f].page.opener => flow[f].page.posted = {}

C22_Witness ==
    \E f \in Flows :
        /\ flow[f].page.loaded
        /\ flow[f].page.opener
        /\ PageOriginParam(flow[f]) = "*"
        /\ PageTokenParam(flow[f]) \in Tokens
        /\ flow[f].page.posted = {PostedMessage("authorizing:github", Absent, "*")}

\* C23 as claimed: GET /error serves the static error page whatever the
\* error, message and origin parameters hold, and the message it reports is
\* error when present, otherwise message, otherwise the default.
C23_ErrorPageAlwaysServed ==
    \A f \in Flows :
        flow[f].route = "/error" =>
            /\ flow[f].reply.status = 200
            /\ flow[f].reply.path = "error.html"
            /\ \E e \in flow[f].log : e.msg = "Displaying error page with message:"

\* the /callback arrived more than MaxAge seconds after its state was issued
ArrivedLate(r) ==
    /\ Received(r)
    /\ r.query.state \in issued
    /\ r.arrivedAt - clock.issuedAt[r.query.state] > 300

OutcomeAlone(r) ==
    LET failure(msg) == [path |-> "/error", error |-> msg, token |-> Absent]
    IN IF r.cookie = EmptyCookie \/ r.cookie.sig # Hmac(r.cookie.value, config.sessionSecret)
       THEN failure("CSRF validation failed: Invalid state cookie signature.")
       ELSE IF Falsy(r.query.state) \/ r.cookie.value # r.query.state
       THEN failure("CSRF validation failed: State parameter mismatch or missing.")
       ELSE IF ~Falsy(r.query.error)
       THEN failure(IF Falsy(r.query.error_description)
                    THEN "An error occurred during GitHub authentication."
                    ELSE r.query.error_description)
       ELSE IF Falsy(r.query.code)
       THEN failure("Authorization code missing from GitHub callback.")
       ELSE IF TokenExchangeFailed(r)
       THEN failure("An internal error occurred during callback processing.")
       ELSE IF ProfileFetchFailed(r) \/ r.userResp.body \in {"malformed", "null"}
       THEN failure("Failed to fetch user profile from GitHub.")
       ELSE IF ~RepoIncludesSlash(config.repo)
       THEN failure("An internal error occurred during callback processing.")
       ELSE IF PermissionGiven(r) /\ r.permResp.permission \in {"admin", "write", "maintain"}
       THEN [path |-> "/success", error |-> Absent, token |-> r.tokenResp.access_token]
       ELSE failure("Access Denied: You do not have sufficient permissions for the configured repository.")

\* C25: with two flows from different browsers interleaved in every way, the
\* outcome of each /callback (success with its token, or the specific
\* failure) is the one that request has when it runs alone, and the
\* configuration, the only state the requests share, is as it was loaded.
C25_FlowsIndependent ==
    /\ config = LoadConfig(env)
    /\ \A f \in Flows :
           (Answered(flow[f]) /\ flow[f].pc = "Terminal") =>
               [path |-> flow[f].reply.path, error |-> flow[f].reply.error,
                token |-> flow[f].reply.token] = OutcomeAlone(flow[f])

C25_Witness ==
    /\ flow["f1"].browser # flow["f2"].browser
    /\ flow["f1"].reply.path = "/success"
    /\ flow["f1"].reply.token = "gho_A"
    /\ flow["f2"].tokenResp.access_token = "gho_B"
    /\ flow["f2"].reply.error = AccessDeniedMessage

\* the reply of /auth that redirects to the provider
AuthRedirected(r) ==
    r.route = "/auth" /\ r.reply.path = "https://github.com/login/oauth/authorize"

\* C26: when /auth succeeds, the state in the authorization URL is the value
\* of the signed oauth_state cookie the same response sets, with path "/",
\* http-only, signed, max-age 300 and SameSite lax; the URL carries the
\* configured redirect URI and scope, and a token exchange sends the same two.
C26_AuthStateAndCookie ==
    \A f \in Flows :
        /\ AuthRedirected(flow[f]) =>
               LET sc == flow[f].reply.setCookie
               IN /\ flow[f].reply.status = 302
                  /\ flow[f].reply.state \in States
                  /\ sc.name = "oauth_state"
                  /\ ~sc.clear
                  /\ sc.cookie.value = flow[f].reply.state
                  /\ sc.cookie.sig = Hmac(flow[f].reply.state, config.sessionSecret)
                  /\ sc.path = "/"
                  /\ sc.httpOnly
                  /\ sc.signed
                  /\ sc.maxAge = 300
                  /\ sc.sameSite = "lax"
                  /\ jar[flow[f].browser].value = flow[f].reply.state
                  /\ flow[f].reply.redirect_uri = env["GITHUB_CALLBACK_URL"]
                  /\ flow[f].reply.scope = config.scope
        /\ flow[f].calls # <<>> =>
               /\ flow[f].tokenParams.redirect_uri = env["GITHUB_CALLBACK_URL"]
               /\ flow[f].tokenParams.scope = config.scope
               /\ flow[f].tokenParams.code = flow[f].query.code

C26_Witness ==
    \E f \in Flows :
        /\ AuthRedirected(flow[f])
        /\ flow[f].reply.state = "1a2b"
        /\ flow[f].reply.setCookie.cookie.value = "1a2b"
        /\ flow[f].reply.redirect_uri = "set"
        /\ flow[f].reply.scope = "repo"

\* the provider calls of the request that have been answered
CallsAnswered(r) ==
    (IF r.tokenResp # NoTokenResp THEN 1 ELSE 0)
        + (IF r.userResp # NoUserResp THEN 1 ELSE 0)
        + (IF r.permResp # NoPermResp THEN 1 ELSE 0)

\* C27: the provider calls of one request are made in the order token
\* exchange, profile fetch, permission check; the profile fetch starts only
\* after the exchange returned a token, the permission check only after the
\* profile fetch returned an identity, at most one call is in flight, and
\* none starts before validation has passed.
C27_CallsInOrder ==
    \A f \in Flows :
        /\ flow[f].calls \in {<<>>, <<"token">>, <<"token", "user">>,
                              <<"token", "user", "permission">>}
        /\ flow[f].calls # <<>> => flow[f].validated
        /\ Len(flow[f].calls) >= 2 =>
               /\ flow[f].tokenResp.kind = "ok"
               /\ TypeOf(flow[f].tokenResp.access_token) = "string"
               /\ flow[f].accessToken = flow[f].tokenResp.access_token
        /\ Len(flow[f].calls) >= 3 =>
               /\ flow[f].userResp # NoUserResp
               /\ ~flow[f].githubUser.null
        /\ Len(flow[f].calls) - CallsAnswered(flow[f]) \in {0, 1}
        /\ (Len(flow[f].calls) - CallsAnswered(flow[f]) = 1) <=>
               flow[f].pc \in {"Exchanging", "FetchingProfile", "VerifyingPermission"}

C27_Witness ==
    \E f \in Flows :
        /\ flow[f].pc = "VerifyingPermission"
        /\ flow[f].calls = <<"token", "user", "permission">>
        /\ flow[f].permResp = NoPermResp
        /\ ~flow[f].githubUser.null

\* the number of calls the request made to an endpoint
CallCount(r, endpoint) == Cardinality({i \in 1..Len(r.calls) : r.calls[i] = endpoint})

\* C28: one /callback request calls the token endpoint, the profile endpoint
\* and the permission endpoint at most once each, and a failure of any of
\* them ends the request with a redirect to /error and no second attempt.
C28_NoRetries ==
    \A f \in Flows :
        /\ \A endpoint \in {"token", "user", "permission"} : CallCount(flow[f], endpoint) <= 1
        /\ TokenExchangeFailed(flow[f]) =>
               /\ flow[f].pc = "Terminal"
               /\ flow[f].reply.path = "/error"
               /\ flow[f].calls = <<"token">>
        /\ ProfileFetchFailed(flow[f]) =>
               /\ flow[f].pc = "Terminal"
               /\ flow[f].reply.path = "/error"
               /\ flow[f].calls = <<"token", "user">>
        /\ (PermissionFault(flow[f]) \/ PermissionStatusError(flow[f])) =>
               /\ flow[f].pc = "Terminal"
               /\ flow[f].reply.path = "/error"
               /\ flow[f].calls = <<"token", "user", "permission">>

C28_Witness ==
    \E f \in Flows :
        /\ flow[f].permResp.kind = "http"
        /\ flow[f].permResp.status = 500
        /\ flow[f].reply.path = "/error"
        /\ CallCount(flow[f], "permission") = 1

\* how far the handler of /callback has come
Rank(pc) ==
    CASE pc = "Exchanging" -> 1
      [] pc = "FetchingProfile" -> 2
      [] pc = "VerifyingPermission" -> 3
      [] pc = "Terminal" -> 4
      [] OTHER -> 0

\* the handler of /callback is waiting for the provider
Awaiting(r) == r.pc \in {"Exchanging", "FetchingProfile", "VerifyingPermission"}

\* one step seen from one flow: a waiting handler goes forward only, and an
\* answered request does not change until the popup leaves it (closes, loads
\* the page it was redirected to, or requests the URL again)
ForwardStep(f) ==
    /\ Awaiting(flow[f]) =>
           /\ Rank(flow[f]'.pc) >= Rank(flow[f].pc)
           /\ flow[f]'.route = flow[f].route
           /\ flow[f]'.query = flow[f].query
    /\ (flow[f].pc = "Terminal" /\ flow[f].route = "/callback") =>
           \/ flow[f]' = flow[f]
           \/ flow[f]'.pc = "Idle"
           \/ flow[f]'.pc = "Page" /\ flow[f]'.reply = flow[f].reply /\ flow[f]'.calls = flow[f].calls
           \/ flow[f]'.replay /\ ~flow[f].replay

\* C29: the handler of /callback only moves forward through Exchanging,
\* FetchingProfile, VerifyingPermission and Terminal, an answered request
\* does nothing more, and when every provider call settles every request
\* that waits for the provider is answered with a redirect to /success or
\* /error.
C29_ForwardAndAnswered ==
    /\ [][\A f \in Flows : ForwardStep(f)]_vars
    /\ \A f \in Flows :
           Awaiting(flow[f]) ~>
               (flow[f].pc = "Terminal" /\ flow[f].reply.path \in {"/success", "/error"})

C29_Witness ==
    \E f \in Flows :
        /\ flow[f].pc = "Terminal"
        /\ flow[f].calls = <<"token", "user", "permission">>
        /\ flow[f].reply.path = "/success"

\* the callbacks of f and g belong to two /auth requests of one browser that
\* were both made before either callback arrived, f's callback arriving first
BothAwaited(f, g) ==
    /\ f # g
    /\ Received(flow[f])
    /\ Received(flow[g])
    /\ flow[f].browser = flow[g].browser
    /\ flow[f].query.state # flow[g].query.state
    /\ flow[f].awaited = {flow[f].query.state, flow[g].query.state}
    /\ flow[g].awaited = {flow[g].query.state}

C31_LogTellsCsrfCause ==
    \A f \in Flows :
        (Received(flow[f]) /\ ~flow[f].validated) =>
            flow[f].log # CsrfLog([valid |-> ~flow[f].cookieState.valid, value |-> flow[f].query.state])

\* a cookie was sent and its signature is not the server's for its value
SignatureFailed(r) ==
    r.cookie # EmptyCookie /\ r.cookie.sig # Hmac(r.cookie.value, config.sessionSecret)

\* C32 as claimed: the reason of a failed validation is "Invalid state cookie
\* signature" only when a cookie was sent and its signature failed; a request
\* with no oauth_state cookie, or with a valid cookie whose value differs from
\* the query state, gets "State parameter mismatch or missing".
C32_CsrfReasonNamesCause ==
    \A f \in Flows :
        (Received(flow[f]) /\ ~flow[f].validated) =>
            /\ SignatureFailed(flow[f]) =>
                   flow[f].reply.error = "CSRF validation failed: Invalid state cookie signature."
            /\ ~SignatureFailed(flow[f]) =>
                   flow[f].reply.error = "CSRF validation failed: State parameter mismatch or missing."

\* C33 as claimed: a profile that is not null has a login that is a non-empty
\* string, and the permission check is never called with an empty or
\* undefined login, whatever body came with the success response.
C33_LoginNonEmpty ==
    \A f \in Flows :
        /\ ~flow[f].githubUser.null => flow[f].githubUser.login \notin {Absent, ""}
        /\ Len(flow[f].calls) >= 3 => flow[f].githubUser.login \notin {Absent, ""}

\* C35: the success page posts a message that holds the token only when a
\* token is present, the origin parameter is present and not "*", and the
\* opener exists; that message is "authorization:github:success:" with the
\* token of the URL, its target is the origin parameter, never "*", and the
\* window closes only when it has been posted.
C35_TokenNeverPostedToAny ==
    \A f \in Flows :
        /\ \A m \in flow[f].page.posted :
               m.token # Absent =>
                   /\ m.data = "authorization:github:success:"
                   /\ m.token = PageTokenParam(flow[f])
                   /\ m.token # ""
                   /\ PageOriginParam(flow[f]) \notin {Absent, "", "*"}
                   /\ m.target = PageOriginParam(flow[f])
                   /\ m.target # "*"
                   /\ flow[f].page.opener
        /\ flow[f].page.closed => \E m \in flow[f].page.posted : m.token # Absent

C35_Witness ==
    \E f \in Flows :
        /\ flow[f].route = "/callback"
        /\ flow[f].page.closed
        /\ \E m \in flow[f].page.posted :
               /\ m.token = flow[f].accessToken
               /\ m.token \in Tokens
               /\ m.target = "https://cms.example.com"

\* a request for /error that the browser made by following a redirect of the
\* server
FollowedRedirect(r) == r.route = "/error" /\ r.redirectedBy # NoReply

\* C34: for every reason that /callback, /auth or /success places in a
\* redirect to /error, the description of the provider included, the query
\* the framework parses from the redirect holds the encoded reason, the single
\* decodeURIComponent of /error does not throw, and its result is the reason.
C34_ReasonRoundTrip ==
    \A f \in Flows :
        FollowedRedirect(flow[f]) =>
            LET m == ReasonChars(flow[f].redirectedBy.error)
            IN /\ ErrorMessage(flow[f].errorQuery) = EncodeURIComponent(m)
               /\ DecodeURIComponent(ErrorMessage(flow[f].errorQuery)) = Return(m)
               /\ flow[f].reply = SendErrorFile(NoReply)
               /\ flow[f].log = {LogEntry("warn", "Displaying error page with message:", {m})}

C34_Witness ==
    \E f \in Flows :
        /\ FollowedRedirect(flow[f])
        /\ flow[f].redirectedBy.error = "a+b&c=d"
        /\ flow[f].errorQuery["error"] = <<"a", "%", "2", "B", "b", "%", "2", "6", "c", "%", "3", "D", "d">>
        /\ flow[f].errorQuery["origin"] = <<"https", ":", "/", "/", "cms.example.com">>
        /\ flow[f].reply.status = 200

====
